---- MODULE Spec2Model ----
(***************************************************************************)
(* Model of drivers/leds/leds-spi-single-wire.c: the WS2812B bit encoder,  *)
(* the pixel composer, the shared chip command buffer, the blocking        *)
(* brightness setter and the probe routine that builds the LED topology.   *)
(*                                                                         *)
(* Bytes are integers 0..255; buffers are sequences of bytes.  Pointers    *)
(* into chip_cmd_buffer are byte offsets from its start.                   *)
(***************************************************************************)
EXTENDS Integers, Sequences, FiniteSets, TLC

(***************************************************************************)
(* Program constants.                                                      *)
(***************************************************************************)
U8Max == 255
ENOMEM == 12
ENODEV == 19
EIO == 5
EINVAL == 22
LED_OFF == 0
LED_FULL == 255
PixelSize == 9
EncodingSize == 3
PadBytes == 2

\* static struct spi_ws2812b_chipdef miwifi_ws2812b_spi_led
miwifi_ws2812b_spi_led ==
    [chip_num |-> 2, led_num_channels |-> 3, led_ctrl_cmd_len |-> 9]

(***************************************************************************)
(* Bounds of the model.                                                    *)
(***************************************************************************)
\* largest number of available child nodes the device tree may hold
MaxChildren == 3

\* brightness values an external caller may request
BrightnessVals == {LED_OFF, LED_FULL}
\* channel mixes (multi_intensity: red, green, blue) a caller may select
Mixes == {<<255, 0, 0>>, <<16, 64, 128>>}
\* error codes the bus layer may report from spi_write
BusErrors == {-EIO}

LedIds == 0 .. (MaxChildren - 1)

VARIABLES
    \* ---- probe ----
    has_match,        \* device_get_match_data(dev) found the chipdef
    chip_count,       \* of_get_available_child_count(np)
    ppc,              \* position of spi_ws2812b_probe
    cur_chip_id,      \* probe local
    probe_ret,        \* <<value returned by probe>>, <<>> while running
    chip_cmd_buffer,  \* the shared buffer, <<>> while not allocated
    created,          \* LEDs whose struct spi_ws2812b_led has been allocated
    registered,       \* LEDs registered with the LED class
    reg_ret,          \* <<value of the last registration>>, <<>> before
    \* ---- per LED (struct spi_ws2812b_led and the call on it) ----
    led_ctrl_cmd,     \* led->led_ctrl_cmd as an offset into chip_cmd_buffer
    chip_id,          \* led->chip_id
    mutex,            \* led->mutex is held
    brightness,       \* requested brightness of the call
    intensity,        \* mc_ldev.subled_info[i].intensity
    pc,               \* position of ws2812b_rgb_led_brightness_set_blocking
    spix,             \* local struct ws2812b_pixel
    stored,           \* encodings of spix the slot memcpy has moved so far
    ctrl_cmd_head,    \* the kzalloc'ed frame, <<>> when none
    ret,              \* local ret
    retval,           \* <<value the last call returned>>, <<>> before
    nwrites,          \* spi_write calls issued by the current/last call
    \* ---- bus layer ----
    spi_tx,           \* bytes handed to spi_write, per calling LED
    bus_status,       \* <<result of the LED's bus write>>, <<>> when none
    \* ---- bus observer ----
    spi_last,         \* the frame most recently handed to the bus
    bus_failed,       \* some bus write has returned an error
    \* ---- encoder check ----
    enc_val, enc_out,
    \* ---- frame length check ----
    len_cdef, len_frame

vars == <<has_match, chip_count, ppc, cur_chip_id, probe_ret, chip_cmd_buffer,
          created, registered, reg_ret, led_ctrl_cmd, chip_id, mutex, brightness,
          intensity, pc, spix, stored, ctrl_cmd_head, ret, retval, nwrites,
          spi_tx, bus_status, spi_last, bus_failed, enc_val, enc_out,
          len_cdef, len_frame>>

encVars == <<enc_val, enc_out>>
lenVars == <<len_cdef, len_frame>>
busVars == <<spi_last, bus_failed>>

(***************************************************************************)
(* Helpers.                                                                *)
(***************************************************************************)
Zeros(n) == [i \in 1 .. n |-> 0]

\* kzalloc'ed memory of n bytes
kzalloc(n) == Zeros(n)

(***************************************************************************)
(* Bit encoder: the three lookup tables and ws2812b_set_encoded_pixel.     *)
(***************************************************************************)
\* index (value >> 5) & 0x07, kept 0-based by TableAt
byte2encoding_h == <<146, 147, 154, 155, 210, 211, 218, 219>>

\* the table with its last entry mistyped (0x6f for 0x6d)
byte2encoding_m_typo == <<73, 77, 105, 111>>

byte2encoding_m == <<73, 77, 105, 109>>

byte2encoding_l == <<36, 38, 52, 54, 164, 166, 180, 182>>

TableAt(table, idx) == table[idx + 1]

\* enc->h, enc->m, enc->l for an u8 val
ws2812b_set_encoded_pixel(val) ==
    << TableAt(byte2encoding_h, (val \div 32) % 8),
       TableAt(byte2encoding_m, (val \div 8) % 4),
       TableAt(byte2encoding_l, val % 8) >>

\* struct ws2812b_pixel { struct ws2812b_encoding r, g, b; } as it lies in
\* memory: the fields in declaration order
PixelLayout(er, eg, eb) == er \o eg \o eb

\* ws2812b_set_pixel_value(&spix, r, g, b): the three fields are assigned
\* g, r, b; the resulting object is the struct in its memory layout
ws2812b_set_pixel_value(r, g, b) ==
    PixelLayout(ws2812b_set_encoded_pixel(r),
                ws2812b_set_encoded_pixel(g),
                ws2812b_set_encoded_pixel(b))

\* led_mc_calc_color_components: subled_info[i].brightness, passed on as
\* unsigned char
led_mc_calc_color_components(b, mix) ==
    [i \in 1 .. 3 |-> ((b * mix[i]) \div LED_FULL) % (U8Max + 1)]

\* lines 121-123: the pixel of a request
RequestPixel(b, mix) ==
    LET c == led_mc_calc_color_components(b, mix)
    IN  ws2812b_set_pixel_value(c[1], c[2], c[3])

(***************************************************************************)
(* Frame sizes of ws2812b_rgb_led_brightness_set_blocking.                 *)
(***************************************************************************)
\* unsigned char ctrl_cmd_len = chip_num * led_ctrl_cmd_len
ctrl_cmd_len(cd) == (cd.chip_num * cd.led_ctrl_cmd_len) % (U8Max + 1)

\* kzalloc(ctrl_cmd_len + 2) and spi_write(.., ctrl_cmd_len + 2)
FrameSize(cd) == ctrl_cmd_len(cd) + PadBytes

\* third argument of the memcpy into the payload (int arithmetic)
CopySize(cd) == cd.led_ctrl_cmd_len * cd.chip_num

\* led->cdef: the match data of the only compatible
cdef == miwifi_ws2812b_spi_led

\* the 9 bytes at led->led_ctrl_cmd
Slot(l) == SubSeq(chip_cmd_buffer, led_ctrl_cmd[l] + 1, led_ctrl_cmd[l] + PixelSize)

(***************************************************************************)
(* Initial state: the driver is bound to a device, probe has not run.      *)
(***************************************************************************)
DriverInit ==
    /\ has_match \in BOOLEAN
    /\ chip_count \in 0 .. MaxChildren
    /\ ppc = "start"
    /\ cur_chip_id = 0
    /\ probe_ret = <<>>
    /\ chip_cmd_buffer = <<>>
    /\ created = {}
    /\ registered = {}
    /\ reg_ret = <<>>
    /\ led_ctrl_cmd = [l \in LedIds |-> 0]
    /\ chip_id = [l \in LedIds |-> 0]
    /\ mutex = [l \in LedIds |-> FALSE]
    /\ brightness = [l \in LedIds |-> LED_OFF]
    /\ intensity = [l \in LedIds |-> <<0, 0, 0>>]
    /\ pc = [l \in LedIds |-> "idle"]
    /\ spix = [l \in LedIds |-> <<>>]
    /\ stored = [l \in LedIds |-> {}]
    /\ ctrl_cmd_head = [l \in LedIds |-> <<>>]
    /\ ret = [l \in LedIds |-> 0]
    /\ retval = [l \in LedIds |-> <<>>]
    /\ nwrites = [l \in LedIds |-> 0]
    /\ spi_tx = [l \in LedIds |-> <<>>]
    /\ bus_status = [l \in LedIds |-> <<>>]

EncIdle == enc_val = 0 /\ enc_out = <<>>
LenIdle == len_cdef = miwifi_ws2812b_spi_led /\ len_frame = 0
BusIdle == spi_last = <<>> /\ bus_failed = FALSE

Init == DriverInit /\ EncIdle /\ LenIdle /\ BusIdle

ledVars == <<led_ctrl_cmd, chip_id, mutex, brightness, intensity, pc, spix,
             stored, ctrl_cmd_head, ret, retval, nwrites, spi_tx, bus_status>>

(***************************************************************************)
(* spi_ws2812b_probe                                                       *)
(***************************************************************************)
\* a failing return of probe; devres releases what was registered
ProbeFail(err) ==
    /\ ppc' = "failed"
    /\ probe_ret' = <<err>>
    /\ registered' = {}

\* the entry checks with only the empty topology rejected
ProbeEntry_emptyOnly ==
    /\ ppc = "start"
    /\ IF ~has_match
         THEN ProbeFail(-ENODEV)
         ELSE IF chip_count = 0
                THEN ProbeFail(-ENODEV)
                ELSE ppc' = "buffer" /\ UNCHANGED <<probe_ret, registered>>
    /\ UNCHANGED reg_ret
    /\ UNCHANGED <<has_match, chip_count, cur_chip_id, chip_cmd_buffer, created>>
    /\ UNCHANGED <<led_ctrl_cmd, chip_id, mutex, brightness, intensity, pc, spix,
                   stored, ctrl_cmd_head, ret, retval, nwrites, spi_tx, bus_status>>
    /\ UNCHANGED <<encVars, lenVars, busVars>>

\* lines 157-164: match data and child count checks
ProbeEntry ==
    /\ ppc = "start"
    /\ IF ~has_match
         THEN ProbeFail(-ENODEV)
         ELSE IF chip_count = 0 \/ chip_count # cdef.chip_num
                THEN ProbeFail(-ENODEV)
                ELSE ppc' = "buffer" /\ UNCHANGED <<probe_ret, registered>>
    /\ UNCHANGED reg_ret
    /\ UNCHANGED <<has_match, chip_count, cur_chip_id, chip_cmd_buffer, created>>
    /\ UNCHANGED ledVars
    /\ UNCHANGED <<encVars, lenVars, busVars>>

\* lines 166-168: the shared buffer
ProbeAllocBuffer ==
    /\ ppc = "buffer"
    /\ \E ok \in BOOLEAN :
         IF ok
           THEN /\ chip_cmd_buffer' = kzalloc(cdef.led_ctrl_cmd_len * cdef.chip_num)
                /\ ppc' = "loop"
                /\ UNCHANGED <<probe_ret, registered>>
           ELSE /\ ProbeFail(-ENOMEM)
                /\ UNCHANGED chip_cmd_buffer
    /\ UNCHANGED reg_ret
    /\ UNCHANGED <<has_match, chip_count, cur_chip_id, created>>
    /\ UNCHANGED ledVars
    /\ UNCHANGED <<encVars, lenVars, busVars>>

\* line 170 and 222: next available child, or return 0.  cur_chip_id also
\* counts the children visited: it is incremented once per iteration.
ProbeLoop ==
    /\ ppc = "loop"
    /\ IF cur_chip_id < chip_count
         THEN ppc' = "newled" /\ UNCHANGED probe_ret
         ELSE ppc' = "done" /\ probe_ret' = <<0>>
    /\ UNCHANGED reg_ret
    /\ UNCHANGED <<has_match, chip_count, cur_chip_id, chip_cmd_buffer,
                   created, registered>>
    /\ UNCHANGED ledVars
    /\ UNCHANGED <<encVars, lenVars, busVars>>

\* the child's buffer reference left at the start of the buffer
ProbeNewLed_noOffset ==
    /\ ppc = "newled"
    /\ \E okled \in BOOLEAN, oksub \in BOOLEAN, on \in BOOLEAN :
         IF okled
           THEN /\ created' = created \cup {cur_chip_id}
                /\ led_ctrl_cmd' = [led_ctrl_cmd EXCEPT ![cur_chip_id] = 0]
                /\ mutex' = [mutex EXCEPT ![cur_chip_id] = FALSE]
                /\ chip_id' = [chip_id EXCEPT ![cur_chip_id] = cur_chip_id]
                /\ IF oksub
                     THEN /\ intensity' = [intensity EXCEPT ![cur_chip_id] = <<0, 0, 0>>]
                          /\ brightness' = [brightness EXCEPT ![cur_chip_id] =
                                               IF on THEN LED_FULL ELSE LED_OFF]
                          /\ ppc' = "call"
                          /\ UNCHANGED <<probe_ret, registered>>
                     ELSE /\ ProbeFail(-ENOMEM)
                          /\ UNCHANGED <<intensity, brightness>>
           ELSE /\ ProbeFail(-ENOMEM)
                /\ UNCHANGED <<created, led_ctrl_cmd, mutex, chip_id, intensity,
                               brightness>>
    /\ UNCHANGED reg_ret
    /\ UNCHANGED <<has_match, chip_count, cur_chip_id, chip_cmd_buffer>>
    /\ UNCHANGED <<pc, spix, stored, ctrl_cmd_head, ret, retval, nwrites,
                   spi_tx, bus_status>>
    /\ UNCHANGED <<encVars, lenVars, busVars>>

\* lines 171-207: allocate and fill the struct of the child.  The fields
\* of lines 176-181 are set before subled_info is allocated.
ProbeNewLed ==
    /\ ppc = "newled"
    /\ \E okled \in BOOLEAN, oksub \in BOOLEAN, on \in BOOLEAN :
         IF okled
           THEN /\ created' = created \cup {cur_chip_id}
                /\ led_ctrl_cmd' = [led_ctrl_cmd EXCEPT ![cur_chip_id] =
                                       cdef.led_ctrl_cmd_len * cur_chip_id]
                /\ mutex' = [mutex EXCEPT ![cur_chip_id] = FALSE]
                /\ chip_id' = [chip_id EXCEPT ![cur_chip_id] = cur_chip_id]
                /\ IF oksub
                     THEN /\ intensity' = [intensity EXCEPT ![cur_chip_id] = <<0, 0, 0>>]
                          /\ brightness' = [brightness EXCEPT ![cur_chip_id] =
                                               IF on THEN LED_FULL ELSE LED_OFF]
                          /\ ppc' = "call"
                          /\ UNCHANGED <<probe_ret, registered>>
                     ELSE /\ ProbeFail(-ENOMEM)
                          /\ UNCHANGED <<intensity, brightness>>
           ELSE /\ ProbeFail(-ENOMEM)
                /\ UNCHANGED <<created, led_ctrl_cmd, mutex, chip_id, intensity,
                               brightness>>
    /\ UNCHANGED reg_ret
    /\ UNCHANGED <<has_match, chip_count, cur_chip_id, chip_cmd_buffer>>
    /\ UNCHANGED <<pc, spix, stored, ctrl_cmd_head, ret, retval, nwrites,
                   spi_tx, bus_status>>
    /\ UNCHANGED <<encVars, lenVars, busVars>>

\* entry of ws2812b_rgb_led_brightness_set_blocking (lines 105-113)
Enter(l) ==
    /\ pc' = [pc EXCEPT ![l] = "alloc"]
    /\ ret' = [ret EXCEPT ![l] = 0]
    /\ retval' = [retval EXCEPT ![l] = <<>>]
    /\ nwrites' = [nwrites EXCEPT ![l] = 0]
    /\ bus_status' = [bus_status EXCEPT ![l] = <<>>]

\* line 208: the initial call, with the default brightness
ProbeCall ==
    /\ ppc = "call"
    /\ ppc' = "wait"
    /\ Enter(cur_chip_id)
    /\ UNCHANGED reg_ret
    /\ UNCHANGED <<has_match, chip_count, cur_chip_id, probe_ret,
                   chip_cmd_buffer, created, registered>>
    /\ UNCHANGED <<led_ctrl_cmd, chip_id, mutex, brightness, intensity, spix,
                   stored, ctrl_cmd_head, spi_tx>>
    /\ UNCHANGED <<encVars, lenVars, busVars>>

\* line 208: the call has returned; its value is not looked at
ProbeReturn ==
    /\ ppc = "wait"
    /\ pc[cur_chip_id] = "idle"
    /\ ppc' = "register"
    /\ UNCHANGED reg_ret
    /\ UNCHANGED <<has_match, chip_count, cur_chip_id, probe_ret,
                   chip_cmd_buffer, created, registered>>
    /\ UNCHANGED ledVars
    /\ UNCHANGED <<encVars, lenVars, busVars>>

\* error codes the registration may return
RegErrors == {-ENOMEM, -EINVAL}

\* lines 210-219: registration with the multicolor LED class returns r
ProbeRegister ==
    /\ ppc = "register"
    /\ \E r \in {0} \cup RegErrors :
         /\ reg_ret' = <<r>>
         /\ IF r >= 0
              THEN /\ registered' = registered \cup {cur_chip_id}
                   /\ cur_chip_id' = (cur_chip_id + 1) % (U8Max + 1)
                   /\ ppc' = "loop"
                   /\ UNCHANGED probe_ret
              ELSE /\ ProbeFail(-ENOMEM)
                   /\ UNCHANGED cur_chip_id
    /\ UNCHANGED <<has_match, chip_count, chip_cmd_buffer, created>>
    /\ UNCHANGED ledVars
    /\ UNCHANGED <<encVars, lenVars, busVars>>

(***************************************************************************)
(* ws2812b_rgb_led_brightness_set_blocking, one call per LED at a time     *)
(* (the LED core runs one set-brightness work per LED).                    *)
(***************************************************************************)
probeState == <<has_match, chip_count, ppc, cur_chip_id, probe_ret, created,
                registered, reg_ret>>

\* an external caller sets a registered LED: brightness b, channel mix
Call(l, b, mix) ==
    /\ l \in registered
    /\ pc[l] = "idle"
    /\ brightness' = [brightness EXCEPT ![l] = b]
    /\ intensity' = [intensity EXCEPT ![l] = mix]
    /\ Enter(l)
    /\ UNCHANGED probeState
    /\ UNCHANGED <<chip_cmd_buffer, led_ctrl_cmd, chip_id, mutex, spix, stored,
                   ctrl_cmd_head, spi_tx>>
    /\ UNCHANGED <<encVars, lenVars, busVars>>

\* lines 115-116: kzalloc succeeded
AllocOk(l) ==
    /\ pc[l] = "alloc"
    /\ ctrl_cmd_head' = [ctrl_cmd_head EXCEPT ![l] = kzalloc(FrameSize(cdef))]
    /\ pc' = [pc EXCEPT ![l] = "lock"]
    /\ UNCHANGED probeState
    /\ UNCHANGED <<chip_cmd_buffer, led_ctrl_cmd, chip_id, mutex, brightness,
                   intensity, spix, stored, ret, retval, nwrites, spi_tx,
                   bus_status>>
    /\ UNCHANGED <<encVars, lenVars, busVars>>

\* the failure detected only after the pixel was saved into the slot
AllocFail_afterStore(l) ==
    /\ pc[l] = "alloc"
    /\ chip_cmd_buffer' =
           [i \in DOMAIN chip_cmd_buffer |->
               IF i - led_ctrl_cmd[l] \in 1 .. PixelSize
                 THEN RequestPixel(brightness[l], intensity[l])[i - led_ctrl_cmd[l]]
                 ELSE chip_cmd_buffer[i]]
    /\ retval' = [retval EXCEPT ![l] = <<-ENOMEM>>]
    /\ pc' = [pc EXCEPT ![l] = "idle"]
    /\ UNCHANGED probeState
    /\ UNCHANGED <<led_ctrl_cmd, chip_id, mutex, brightness,
                   intensity, spix, stored, ctrl_cmd_head, ret, nwrites,
                   spi_tx, bus_status>>
    /\ UNCHANGED <<encVars, lenVars, busVars>>

\* lines 115-117: kzalloc failed, return -ENOMEM
AllocFail(l) ==
    /\ pc[l] = "alloc"
    /\ retval' = [retval EXCEPT ![l] = <<-ENOMEM>>]
    /\ pc' = [pc EXCEPT ![l] = "idle"]
    /\ UNCHANGED probeState
    /\ UNCHANGED <<chip_cmd_buffer, led_ctrl_cmd, chip_id, mutex, brightness,
                   intensity, spix, stored, ctrl_cmd_head, ret, nwrites,
                   spi_tx, bus_status>>
    /\ UNCHANGED <<encVars, lenVars, busVars>>

\* the call going on without taking the mutex
Lock_noAcquire(l) ==
    /\ pc[l] = "lock"
    /\ pc' = [pc EXCEPT ![l] = "calc"]
    /\ UNCHANGED probeState
    /\ UNCHANGED <<chip_cmd_buffer, led_ctrl_cmd, chip_id, mutex, brightness,
                   intensity, spix, stored, ctrl_cmd_head, ret, retval,
                   nwrites, spi_tx, bus_status>>
    /\ UNCHANGED <<encVars, lenVars, busVars>>

\* the lock as one mutex of the whole driver
Lock_global(l) ==
    /\ pc[l] = "lock"
    /\ \A m \in DOMAIN mutex : ~mutex[m]
    /\ mutex' = [mutex EXCEPT ![l] = TRUE]
    /\ pc' = [pc EXCEPT ![l] = "calc"]
    /\ UNCHANGED probeState
    /\ UNCHANGED <<chip_cmd_buffer, led_ctrl_cmd, chip_id, brightness,
                   intensity, spix, stored, ctrl_cmd_head, ret, retval,
                   nwrites, spi_tx, bus_status>>
    /\ UNCHANGED <<encVars, lenVars, busVars>>

\* line 119: mutex_lock(&led->mutex)
Lock(l) ==
    /\ pc[l] = "lock"
    /\ ~mutex[l]
    /\ mutex' = [mutex EXCEPT ![l] = TRUE]
    /\ pc' = [pc EXCEPT ![l] = "calc"]
    /\ UNCHANGED probeState
    /\ UNCHANGED <<chip_cmd_buffer, led_ctrl_cmd, chip_id, brightness,
                   intensity, spix, stored, ctrl_cmd_head, ret, retval,
                   nwrites, spi_tx, bus_status>>
    /\ UNCHANGED <<encVars, lenVars, busVars>>

\* lines 121-123: scale the brightness, compose the pixel
Calc(l) ==
    /\ pc[l] = "calc"
    /\ spix' = [spix EXCEPT ![l] = RequestPixel(brightness[l], intensity[l])]
    /\ stored' = [stored EXCEPT ![l] = {}]
    /\ pc' = [pc EXCEPT ![l] = "store"]
    /\ UNCHANGED probeState
    /\ UNCHANGED <<chip_cmd_buffer, led_ctrl_cmd, chip_id, mutex, brightness,
                   intensity, ctrl_cmd_head, ret, retval, nwrites, spi_tx,
                   bus_status>>
    /\ UNCHANGED <<encVars, lenVars, busVars>>

\* the buffer after bytes from..to of src were moved to offset off
MemPut(buf, off, src, from, to) ==
    [i \in DOMAIN buf |->
        IF i - off \in from .. to THEN src[i - off] ELSE buf[i]]

\* the store with the slot offset forgotten: always at the buffer's start
Store_slot0(l, k) ==
    /\ pc[l] = "store"
    /\ k \in (1 .. (PixelSize \div EncodingSize)) \ stored[l]
    /\ chip_cmd_buffer' = MemPut(chip_cmd_buffer, 0, spix[l],
                                 EncodingSize * (k - 1) + 1, EncodingSize * k)
    /\ IF stored[l] \cup {k} = 1 .. (PixelSize \div EncodingSize)
         THEN /\ stored' = [stored EXCEPT ![l] = {}]
              /\ pc' = [pc EXCEPT ![l] = "copy"]
         ELSE /\ stored' = [stored EXCEPT ![l] = stored[l] \cup {k}]
              /\ UNCHANGED pc
    /\ UNCHANGED probeState
    /\ UNCHANGED <<led_ctrl_cmd, chip_id, mutex, brightness, intensity, spix,
                   ctrl_cmd_head, ret, retval, nwrites, spi_tx, bus_status>>
    /\ UNCHANGED <<encVars, lenVars, busVars>>

\* line 126: memcpy(led->led_ctrl_cmd, &spix, sizeof(spix)).  Nothing orders
\* this copy against the reads and writes of the other LEDs' calls, so it
\* is moved one struct ws2812b_encoding at a time, in any order.
Store(l, k) ==
    /\ pc[l] = "store"
    /\ k \in (1 .. (PixelSize \div EncodingSize)) \ stored[l]
    /\ chip_cmd_buffer' = MemPut(chip_cmd_buffer, led_ctrl_cmd[l], spix[l],
                                 EncodingSize * (k - 1) + 1, EncodingSize * k)
    /\ IF stored[l] \cup {k} = 1 .. (PixelSize \div EncodingSize)
         THEN /\ stored' = [stored EXCEPT ![l] = {}]
              /\ pc' = [pc EXCEPT ![l] = "copy"]
         ELSE /\ stored' = [stored EXCEPT ![l] = stored[l] \cup {k}]
              /\ UNCHANGED pc
    /\ UNCHANGED probeState
    /\ UNCHANGED <<led_ctrl_cmd, chip_id, mutex, brightness, intensity, spix,
                   ctrl_cmd_head, ret, retval, nwrites, spi_tx, bus_status>>
    /\ UNCHANGED <<encVars, lenVars, busVars>>

\* the source of the payload copy: led_ctrl_cmd - led_ctrl_cmd_len * chip_id
PayloadSource(l) == led_ctrl_cmd[l] - cdef.led_ctrl_cmd_len * chip_id[l]

\* the copy with the SOF byte not skipped (ctrl_cmd_payload = ctrl_cmd_head)
Copy_noSOF(l) ==
    /\ pc[l] = "copy"
    /\ ctrl_cmd_head' = [ctrl_cmd_head EXCEPT ![l] =
           MemPut(ctrl_cmd_head[l], 0,
                  SubSeq(chip_cmd_buffer, PayloadSource(l) + 1,
                         PayloadSource(l) + CopySize(cdef)),
                  1, CopySize(cdef))]
    /\ pc' = [pc EXCEPT ![l] = "write"]
    /\ UNCHANGED probeState
    /\ UNCHANGED <<chip_cmd_buffer, led_ctrl_cmd, chip_id, mutex, brightness,
                   intensity, spix, stored, ret, retval, nwrites, spi_tx,
                   bus_status>>
    /\ UNCHANGED <<encVars, lenVars, busVars>>

\* lines 125, 129-130: copy the whole buffer behind the SOF byte.  The copy
\* is one step; what a racing store of another LED lets it see is produced
\* on the writer's side, by the partly moved pixel of Store.
Copy(l) ==
    /\ pc[l] = "copy"
    /\ ctrl_cmd_head' = [ctrl_cmd_head EXCEPT ![l] =
           MemPut(ctrl_cmd_head[l], 1,
                  SubSeq(chip_cmd_buffer, PayloadSource(l) + 1,
                         PayloadSource(l) + CopySize(cdef)),
                  1, CopySize(cdef))]
    /\ pc' = [pc EXCEPT ![l] = "write"]
    /\ UNCHANGED probeState
    /\ UNCHANGED <<chip_cmd_buffer, led_ctrl_cmd, chip_id, mutex, brightness,
                   intensity, spix, stored, ret, retval, nwrites, spi_tx,
                   bus_status>>
    /\ UNCHANGED <<encVars, lenVars, busVars>>

\* line 131: spi_write(led->spi, ctrl_cmd_head, ctrl_cmd_len + 2) is entered
SpiWrite(l) ==
    /\ pc[l] = "write"
    /\ spi_tx' = [spi_tx EXCEPT ![l] = SubSeq(ctrl_cmd_head[l], 1, FrameSize(cdef))]
    /\ nwrites' = [nwrites EXCEPT ![l] = nwrites[l] + 1]
    /\ pc' = [pc EXCEPT ![l] = "spi"]
    /\ UNCHANGED probeState
    /\ UNCHANGED <<chip_cmd_buffer, led_ctrl_cmd, chip_id, mutex, brightness,
                   intensity, spix, stored, ctrl_cmd_head, ret, retval,
                   bus_status>>
    /\ UNCHANGED <<encVars, lenVars>>

\* the write as the bus sees it: the frame becomes the last one it got
BusWriteStart(l) ==
    /\ SpiWrite(l)
    /\ spi_last' = spi_tx'[l]
    /\ UNCHANGED bus_failed

\* the write where the bus is not observed
WriteStart(l) == SpiWrite(l) /\ UNCHANGED busVars

\* line 131: spi_write returns r, 0 or the bus layer's error
SpiReturn(l, r) ==
    /\ pc[l] = "spi"
    /\ bus_status' = [bus_status EXCEPT ![l] = <<r>>]
    /\ ret' = [ret EXCEPT ![l] = r]
    /\ spi_tx' = [spi_tx EXCEPT ![l] = <<>>]
    /\ pc' = [pc EXCEPT ![l] = "unlock"]
    /\ UNCHANGED probeState
    /\ UNCHANGED <<chip_cmd_buffer, led_ctrl_cmd, chip_id, mutex, brightness,
                   intensity, spix, stored, ctrl_cmd_head, retval, nwrites>>
    /\ UNCHANGED <<encVars, lenVars>>

\* the return as the bus sees it: an error is remembered
BusWriteReturn(l, r) ==
    /\ SpiReturn(l, r)
    /\ bus_failed' = (bus_failed \/ r < 0)
    /\ UNCHANGED spi_last

\* the return where the bus is not observed
WriteReturn(l, r) == SpiReturn(l, r) /\ UNCHANGED busVars

\* the unlock skipped when the bus write failed
Unlock_skipOnError(l) ==
    /\ pc[l] = "unlock"
    /\ mutex' = IF ret[l] < 0 THEN mutex ELSE [mutex EXCEPT ![l] = FALSE]
    /\ pc' = [pc EXCEPT ![l] = "free"]
    /\ UNCHANGED probeState
    /\ UNCHANGED <<chip_cmd_buffer, led_ctrl_cmd, chip_id, brightness,
                   intensity, spix, stored, ctrl_cmd_head, ret, retval,
                   nwrites, spi_tx, bus_status>>
    /\ UNCHANGED <<encVars, lenVars, busVars>>

\* line 133: mutex_unlock(&led->mutex)
Unlock(l) ==
    /\ pc[l] = "unlock"
    /\ mutex' = [mutex EXCEPT ![l] = FALSE]
    /\ pc' = [pc EXCEPT ![l] = "free"]
    /\ UNCHANGED probeState
    /\ UNCHANGED <<chip_cmd_buffer, led_ctrl_cmd, chip_id, brightness,
                   intensity, spix, stored, ctrl_cmd_head, ret, retval,
                   nwrites, spi_tx, bus_status>>
    /\ UNCHANGED <<encVars, lenVars, busVars>>

\* the return with every failure reported as -ENOMEM
Return_enomem(l) ==
    /\ pc[l] = "free"
    /\ ctrl_cmd_head' = [ctrl_cmd_head EXCEPT ![l] = <<>>]
    /\ spix' = [spix EXCEPT ![l] = <<>>]
    /\ retval' = [retval EXCEPT ![l] = IF ret[l] < 0 THEN <<-ENOMEM>> ELSE <<0>>]
    /\ ret' = [ret EXCEPT ![l] = 0]
    /\ nwrites' = [nwrites EXCEPT ![l] = 0]
    /\ bus_status' = [bus_status EXCEPT ![l] = <<>>]
    /\ pc' = [pc EXCEPT ![l] = "idle"]
    /\ UNCHANGED probeState
    /\ UNCHANGED <<chip_cmd_buffer, led_ctrl_cmd, chip_id, mutex, brightness,
                   intensity, stored, spi_tx>>
    /\ UNCHANGED <<encVars, lenVars, busVars>>

\* lines 135-137: kfree(ctrl_cmd_head); return ret
Return(l) ==
    /\ pc[l] = "free"
    /\ ctrl_cmd_head' = [ctrl_cmd_head EXCEPT ![l] = <<>>]
    /\ spix' = [spix EXCEPT ![l] = <<>>]
    /\ retval' = [retval EXCEPT ![l] = <<ret[l]>>]
    /\ ret' = [ret EXCEPT ![l] = 0]
    /\ nwrites' = [nwrites EXCEPT ![l] = 0]
    /\ bus_status' = [bus_status EXCEPT ![l] = <<>>]
    /\ pc' = [pc EXCEPT ![l] = "idle"]
    /\ UNCHANGED probeState
    /\ UNCHANGED <<chip_cmd_buffer, led_ctrl_cmd, chip_id, mutex, brightness,
                   intensity, stored, spi_tx>>
    /\ UNCHANGED <<encVars, lenVars, busVars>>

Next ==
    \/ ProbeEntry
    \/ ProbeAllocBuffer
    \/ ProbeLoop
    \/ ProbeNewLed
    \/ ProbeCall
    \/ ProbeReturn
    \/ ProbeRegister
    \/ \E l \in LedIds, b \in BrightnessVals, mix \in Mixes : Call(l, b, mix)
    \/ \E l \in LedIds : AllocOk(l)
    \/ \E l \in LedIds : AllocFail(l)
    \/ \E l \in LedIds : Lock(l)
    \/ \E l \in LedIds : Calc(l)
    \/ \E l \in LedIds, k \in 1 .. (PixelSize \div EncodingSize) : Store(l, k)
    \/ \E l \in LedIds : Copy(l)
    \/ \E l \in LedIds : WriteStart(l)
    \/ \E l \in LedIds, r \in {0} \cup BusErrors : WriteReturn(l, r)
    \/ \E l \in LedIds : Unlock(l)
    \/ \E l \in LedIds : Return(l)

Spec == Init /\ [][Next]_vars

(***************************************************************************)
(* The bit encoder on its own: every 8-bit value is encoded once.          *)
(***************************************************************************)
\* the driver part held still: probe not started
DriverParked ==
    /\ DriverInit
    /\ has_match
    /\ chip_count = cdef.chip_num

InitEnc ==
    /\ DriverParked
    /\ LenIdle
    /\ BusIdle
    /\ enc_val \in 0 .. U8Max
    /\ enc_out = <<>>

\* ws2812b_set_encoded_pixel(&enc, enc_val)
Encode ==
    /\ enc_out = <<>>
    /\ enc_out' = ws2812b_set_encoded_pixel(enc_val)
    /\ UNCHANGED enc_val
    /\ UNCHANGED <<probeState, chip_cmd_buffer, ledVars, lenVars, busVars>>

NextEnc == Encode

SpecEnc == InitEnc /\ [][NextEnc]_vars

(***************************************************************************)
(* The frame size of the setter for every descriptor the struct can hold.  *)
(***************************************************************************)
InitLen ==
    /\ DriverParked
    /\ EncIdle
    /\ BusIdle
    /\ len_cdef \in [chip_num : 0 .. U8Max, led_num_channels : {3},
                     led_ctrl_cmd_len : 0 .. U8Max]
    /\ len_frame = 0

\* lines 112-115: the size of the frame the setter allocates for len_cdef
FrameAlloc ==
    /\ len_frame = 0
    /\ len_frame' = Len(kzalloc(FrameSize(len_cdef)))
    /\ UNCHANGED len_cdef
    /\ UNCHANGED <<probeState, chip_cmd_buffer, ledVars, encVars, busVars>>

NextLen == FrameAlloc

SpecLen == InitLen /\ [][NextLen]_vars

(***************************************************************************)
(* Properties.                                                             *)
(***************************************************************************)
\* the 9 bytes at led->led_ctrl_cmd in the next state
SlotNext(l) ==
    SubSeq(chip_cmd_buffer', led_ctrl_cmd'[l] + 1, led_ctrl_cmd'[l] + PixelSize)

\* calls that have saved their pixel and whose bus write has not returned
InTransmission == {l \in created : pc[l] \in {"copy", "write", "spi"}}

\* C1: at most one call of the chip group is between its slot store and
\* the return of its bus write, so the bus writes of two LEDs of the group
\* never overlap.
C1_WritesSerialized == Cardinality(InTransmission) <= 1

\* C2: the frame handed to the bus is 0x00, then the whole chip command
\* buffer from chip 0 as it was when the copy was taken, then 0x00; it is
\* not touched between the copy and the hand-over, and is handed over in
\* one spi_write call.
C2_FrameLayout ==
    [][\A l \in LedIds :
          /\ (pc[l] = "copy" /\ pc'[l] = "write")
                => ctrl_cmd_head'[l] = <<0>> \o chip_cmd_buffer \o <<0>>
          /\ pc[l] = "write" => ctrl_cmd_head'[l] = ctrl_cmd_head[l]
          /\ (pc[l] = "write" /\ pc'[l] = "spi")
                => spi_tx'[l] = ctrl_cmd_head[l] /\ nwrites'[l] = 1
          /\ pc[l] = "spi" => nwrites'[l] = 1]_vars

\* C2 witness: LED 1 hands over a frame whose first slot carries the red
\* pixel LED 0 stored.
C2_Witness ==
    /\ pc[1] = "spi"
    /\ chip_id[1] = 1
    /\ Len(spi_tx[1]) = 20
    /\ SubSeq(spi_tx[1], 2, 10) = RequestPixel(LED_FULL, <<255, 0, 0>>)

\* the pixel with its encodings in the order green, red, blue
GRBPixel(b, mix) ==
    LET c == led_mc_calc_color_components(b, mix)
    IN  ws2812b_set_encoded_pixel(c[2]) \o ws2812b_set_encoded_pixel(c[1])
           \o ws2812b_set_encoded_pixel(c[3])

\* C3: the 9 bytes a call stores into its slot are encode(green),
\* encode(red), encode(blue), in this order.
C3_GreenRedBlue ==
    \A l \in created :
        pc[l] \in {"copy", "write", "spi", "unlock", "free"}
            => Slot(l) = GRBPixel(brightness[l], intensity[l])

\* bits of a byte, most significant first
Bits(byte) == [i \in 1 .. 8 |-> (byte \div (2 ^ (8 - i))) % 2]

\* the 24 bits sent for an encoding h, m, l
Stream(enc) == Bits(enc[1]) \o Bits(enc[2]) \o Bits(enc[3])

\* the 3-bit group of protocol bit i (1 is bit 7 of the value)
Group(stream, i) == SubSeq(stream, 3 * i - 2, 3 * i)

\* the value whose bit i is 1 exactly when group i is 110
Decode(enc) ==
    LET bit(i) == IF Group(Stream(enc), i) = <<1, 1, 0>> THEN 2 ^ (8 - i) ELSE 0
    IN  bit(1) + bit(2) + bit(3) + bit(4) + bit(5) + bit(6) + bit(7) + bit(8)

\* C4: the 24-bit stream of encode(v) is, for bits 7..0 of v, 110 for a 1
\* and 100 for a 0; every 3-bit group is 100 or 110 and decoding gives v.
C4_EncodeRoundTrip ==
    enc_out # <<>> =>
        /\ Len(enc_out) = 3
        /\ \A i \in 1 .. 8 :
              Group(Stream(enc_out), i) =
                 IF Bits(enc_val)[i] = 1 THEN <<1, 1, 0>> ELSE <<1, 0, 0>>
        /\ \A i \in 1 .. 8 :
              Group(Stream(enc_out), i) \in {<<1, 0, 0>>, <<1, 1, 0>>}
        /\ Decode(enc_out) = enc_val

\* C4 witness: 0xA5 has been encoded.
C4_Witness == enc_val = 165 /\ enc_out = <<211, 73, 166>>

\* C5: a call whose frame allocation fails returns -ENOMEM; neither its
\* entry nor its return changes the chip command buffer or any mutex, its
\* own mutex is free, and it issues no bus write.
C5_AllocFailNoMutation ==
    [][\A l \in LedIds :
          /\ (pc[l] = "idle" /\ pc'[l] = "alloc")
                => /\ chip_cmd_buffer' = chip_cmd_buffer
                   /\ mutex' = mutex
          /\ (pc[l] = "alloc" /\ pc'[l] = "idle")
                => /\ retval'[l] = <<-ENOMEM>>
                   /\ chip_cmd_buffer' = chip_cmd_buffer
                   /\ ~mutex[l]
                   /\ mutex' = mutex
                   /\ nwrites'[l] = 0
                   /\ spi_tx' = spi_tx]_vars

\* C5 witness: a registered LED's call failed its allocation while asking
\* for a color other than the one its slot holds.
C5_Witness ==
    \E l \in registered :
        /\ pc[l] = "idle"
        /\ retval[l] = <<-ENOMEM>>
        /\ Slot(l) # RequestPixel(brightness[l], intensity[l])

\* C6 as stated: after a call whose frame allocation failed, the caller's
\* slot holds the pixel of the color it asked for.
C6_SlotUpdatedOnAllocFail ==
    \A l \in created :
        (pc[l] = "idle" /\ retval[l] = <<-ENOMEM>>)
            => Slot(l) = RequestPixel(brightness[l], intensity[l])

\* C6 amended: a call whose frame allocation fails leaves the caller's slot
\* as it was before the call (the new color is not stored), returns
\* -ENOMEM and has not invoked the bus write.
C6_SlotKeptOnAllocFail ==
    [][\A l \in created :
          /\ (pc[l] = "idle" /\ pc'[l] = "alloc") => SlotNext(l) = Slot(l)
          /\ (pc[l] = "alloc" /\ pc'[l] = "idle")
                => /\ SlotNext(l) = Slot(l)
                   /\ retval'[l] = <<-ENOMEM>>
                   /\ bus_status'[l] = <<>>
                   /\ nwrites'[l] = 0]_vars

\* C6 witness: a call asking for off failed its allocation and the slot
\* still holds the red pixel stored before.
C6_Witness ==
    \E l \in registered :
        /\ pc[l] = "idle"
        /\ retval[l] = <<-ENOMEM>>
        /\ brightness[l] = LED_OFF
        /\ Slot(l) = RequestPixel(LED_FULL, <<255, 0, 0>>)

\* C7: a call whose bus write failed returns the bus layer's code, leaves
\* the newly stored pixel in its slot, and has issued one write only; the
\* failing write itself changes nothing in the buffer and is followed by
\* the unlock.
C7_BusFailure ==
    [][\A l \in created :
          /\ (pc[l] = "spi" /\ pc'[l] # "spi" /\ bus_status'[l] # <<0>>)
                => /\ pc'[l] = "unlock"
                   /\ chip_cmd_buffer' = chip_cmd_buffer
          /\ (pc[l] = "free" /\ pc'[l] = "idle" /\ bus_status[l] # <<0>>)
                => /\ bus_status[l] # <<>>
                   /\ retval'[l] = bus_status[l]
                   /\ SlotNext(l) = RequestPixel(brightness[l], intensity[l])
                   /\ nwrites[l] = 1]_vars

\* C7 witness: a registered LED's call returned -EIO and its slot holds
\* the pixel it asked for.
C7_Witness ==
    \E l \in registered :
        /\ pc[l] = "idle"
        /\ retval[l] = <<-EIO>>
        /\ brightness[l] = LED_FULL
        /\ intensity[l] = <<16, 64, 128>>
        /\ Slot(l) = RequestPixel(LED_FULL, <<16, 64, 128>>)

\* C8: after initialization, with LED 1 idle and its slot holding the
\* encoding of off, LED 0 set to (r,g,b) = (255,0,0) hands the bus a 20-byte
\* frame: 0x00, encode(green=0) encode(red=255) encode(blue=0), the pixel
\* stored in LED 1's slot, 0x00.
C8_Scenario ==
    ( /\ ppc = "done"
      /\ pc[0] = "spi"
      /\ brightness[0] = LED_FULL
      /\ intensity[0] = <<255, 0, 0>>
      /\ pc[1] = "idle"
      /\ brightness[1] = LED_OFF
      /\ Slot(1) = RequestPixel(LED_OFF, <<0, 0, 0>>) )
    => /\ Len(spi_tx[0]) = 20
       /\ spi_tx[0] = <<0>> \o GRBPixel(LED_FULL, <<255, 0, 0>>) \o Slot(1) \o <<0>>

\* C9: the frame allocated for a descriptor has length
\* chip_num * led_ctrl_cmd_len + 2, for every 8-bit chip_num and
\* led_ctrl_cmd_len.
C9_FrameLength ==
    len_frame # 0 =>
        len_frame = len_cdef.chip_num * len_cdef.led_ctrl_cmd_len + PadBytes

\* C10: when the number of available children differs from the chipdef's
\* chip_num, probe fails with -ENODEV and never creates or registers an
\* LED, allocates the buffer, starts a call or writes to the bus.
C10_TopologyMismatch ==
    chip_count # cdef.chip_num =>
        /\ ppc \in {"start", "failed"}
        /\ ppc = "failed" => probe_ret = <<-ENODEV>>
        /\ created = {}
        /\ registered = {}
        /\ chip_cmd_buffer = <<>>
        /\ \A l \in LedIds : pc[l] = "idle" /\ nwrites[l] = 0 /\ spi_tx[l] = <<>>

\* C10 witness: one child was found for a chipdef of two chips and probe
\* has failed.
C10_Witness ==
    /\ has_match
    /\ chip_count = 1
    /\ cdef.chip_num = 2
    /\ ppc = "failed"
    /\ probe_ret = <<-ENODEV>>

\* C11: no failure is swallowed: probe goes on to register an endpoint only
\* when the endpoint's initial call returned success, and a failed
\* registration makes probe return the error the registration returned.
C11_NoErrorSwallowed ==
    /\ ppc = "register" => retval[cur_chip_id] = <<0>>
    /\ (ppc = "failed" /\ reg_ret # <<>> /\ reg_ret # <<0>>)
          => probe_ret = reg_ret

\* C12: when an endpoint becomes registered, its initial call with the
\* default brightness has returned from its bus write and the endpoint's
\* slot holds the encoded default pixel; endpoints not yet registered
\* take no external call.
C12_InitialTransmissionFirst ==
    [][\A l \in LedIds :
          /\ (l \notin registered /\ l \in registered')
                => /\ pc[l] = "idle"
                   /\ retval[l] # <<>>
                   /\ retval[l] # <<-ENOMEM>>
                   /\ Slot(l) = RequestPixel(brightness[l], intensity[l])
          /\ (l \notin registered /\ pc[l] = "idle" /\ pc'[l] # "idle")
                => ppc = "call" /\ l = cur_chip_id]_vars

(***************************************************************************)
(* The driver in service: probe has returned 0, both endpoints are         *)
(* registered and their initial calls (default state off) have been        *)
(* transmitted.  Only the setter runs from here on.                        *)
(***************************************************************************)
\* the LEDs of the probed chip group
GroupLeds == 0 .. (cdef.chip_num - 1)

InitService ==
    /\ has_match = TRUE
    /\ chip_count = cdef.chip_num
    /\ ppc = "done"
    /\ cur_chip_id = cdef.chip_num
    /\ probe_ret = <<0>>
    /\ chip_cmd_buffer = RequestPixel(LED_OFF, <<0, 0, 0>>)
                            \o RequestPixel(LED_OFF, <<0, 0, 0>>)
    /\ created = GroupLeds
    /\ registered = GroupLeds
    /\ reg_ret = <<0>>
    /\ led_ctrl_cmd = [l \in LedIds |->
                          IF l \in GroupLeds THEN cdef.led_ctrl_cmd_len * l ELSE 0]
    /\ chip_id = [l \in LedIds |-> IF l \in GroupLeds THEN l ELSE 0]
    /\ mutex = [l \in LedIds |-> FALSE]
    /\ brightness = [l \in LedIds |-> LED_OFF]
    /\ intensity = [l \in LedIds |-> <<0, 0, 0>>]
    /\ pc = [l \in LedIds |-> "idle"]
    /\ spix = [l \in LedIds |-> <<>>]
    /\ stored = [l \in LedIds |-> {}]
    /\ ctrl_cmd_head = [l \in LedIds |-> <<>>]
    /\ ret = [l \in LedIds |-> 0]
    /\ retval = [l \in LedIds |-> IF l \in GroupLeds THEN <<0>> ELSE <<>>]
    /\ nwrites = [l \in LedIds |-> 0]
    /\ spi_tx = [l \in LedIds |-> <<>>]
    /\ bus_status = [l \in LedIds |-> <<>>]
    /\ EncIdle
    /\ LenIdle
    /\ BusIdle

\* any step of the call on LED l, from the allocation to the return
SetterStep(l) ==
    \/ AllocOk(l)
    \/ AllocFail(l)
    \/ Lock(l)
    \/ Calc(l)
    \/ \E k \in 1 .. (PixelSize \div EncodingSize) : Store(l, k)
    \/ Copy(l)
    \/ WriteStart(l)
    \/ \E r \in {0} \cup BusErrors : WriteReturn(l, r)
    \/ Unlock(l)
    \/ Return(l)

\* callers switch the LEDs between off and full red
NextService ==
    \/ \E l \in LedIds, b \in BrightnessVals : Call(l, b, <<255, 0, 0>>)
    \/ \E l \in LedIds : AllocOk(l)
    \/ \E l \in LedIds : AllocFail(l)
    \/ \E l \in LedIds : Lock(l)
    \/ \E l \in LedIds : Calc(l)
    \/ \E l \in LedIds, k \in 1 .. (PixelSize \div EncodingSize) : Store(l, k)
    \/ \E l \in LedIds : Copy(l)
    \/ \E l \in LedIds : WriteStart(l)
    \/ \E l \in LedIds, r \in {0} \cup BusErrors : WriteReturn(l, r)
    \/ \E l \in LedIds : Unlock(l)
    \/ \E l \in LedIds : Return(l)

\* scheduling: a thread inside the setter keeps running, and the bus layer
\* completes every write it was handed
SpecFair ==
    InitService /\ [][NextService]_vars /\ \A l \in LedIds : WF_vars(SetterStep(l))

\* C13: every call returns, and every mutex taken is released again.
C13_CallsReturn ==
    \A l \in LedIds :
        /\ (pc[l] # "idle") ~> (pc[l] = "idle")
        /\ mutex[l] ~> ~mutex[l]

\* C13 witness: a call whose bus write failed has returned with its mutex
\* released while the other LED's call is inside its critical section.
C13_Witness ==
    /\ pc[0] = "idle"
    /\ retval[0] = <<-EIO>>
    /\ ~mutex[0]
    /\ pc[1] = "spi"
    /\ mutex[1]

(***************************************************************************)
(* Two chip groups: the driver has probed two SPI devices, each with its   *)
(* own chip_cmd_buffer and its own LEDs.  The two buffers are laid out one *)
(* after the other in memory; LED l belongs to device l \div chip_num.     *)
(***************************************************************************)
TwoGroupLeds == 0 .. (2 * cdef.chip_num - 1)

GroupOf(l) == l \div cdef.chip_num

InitGroups ==
    /\ has_match = TRUE
    /\ chip_count = cdef.chip_num
    /\ ppc = "done"
    /\ cur_chip_id = cdef.chip_num
    /\ probe_ret = <<0>>
    /\ chip_cmd_buffer =
          [i \in 1 .. (2 * cdef.chip_num * cdef.led_ctrl_cmd_len) |->
              RequestPixel(LED_OFF, <<0, 0, 0>>)[((i - 1) % PixelSize) + 1]]
    /\ created = TwoGroupLeds
    /\ registered = TwoGroupLeds
    /\ reg_ret = <<0>>
    /\ led_ctrl_cmd = [l \in TwoGroupLeds |->
          GroupOf(l) * cdef.chip_num * cdef.led_ctrl_cmd_len
             + cdef.led_ctrl_cmd_len * (l % cdef.chip_num)]
    /\ chip_id = [l \in TwoGroupLeds |-> l % cdef.chip_num]
    /\ mutex = [l \in TwoGroupLeds |-> FALSE]
    /\ brightness = [l \in TwoGroupLeds |-> LED_OFF]
    /\ intensity = [l \in TwoGroupLeds |-> <<0, 0, 0>>]
    /\ pc = [l \in TwoGroupLeds |-> "idle"]
    /\ spix = [l \in TwoGroupLeds |-> <<>>]
    /\ stored = [l \in TwoGroupLeds |-> {}]
    /\ ctrl_cmd_head = [l \in TwoGroupLeds |-> <<>>]
    /\ ret = [l \in TwoGroupLeds |-> 0]
    /\ retval = [l \in TwoGroupLeds |-> <<0>>]
    /\ nwrites = [l \in TwoGroupLeds |-> 0]
    /\ spi_tx = [l \in TwoGroupLeds |-> <<>>]
    /\ bus_status = [l \in TwoGroupLeds |-> <<>>]
    /\ EncIdle
    /\ LenIdle
    /\ BusIdle

\* the LEDs that take calls: the last of the first group, the first of the
\* second
GroupCallers == {cdef.chip_num - 1, cdef.chip_num}

NextGroups ==
    \/ \E l \in GroupCallers, b \in BrightnessVals, mix \in Mixes : Call(l, b, mix)
    \/ \E l \in TwoGroupLeds : AllocOk(l)
    \/ \E l \in TwoGroupLeds : AllocFail(l)
    \/ \E l \in TwoGroupLeds : Lock(l)
    \/ \E l \in TwoGroupLeds : Calc(l)
    \/ \E l \in TwoGroupLeds, k \in 1 .. (PixelSize \div EncodingSize) : Store(l, k)
    \/ \E l \in TwoGroupLeds : Copy(l)
    \/ \E l \in TwoGroupLeds : WriteStart(l)
    \/ \E l \in TwoGroupLeds, r \in {0} \cup BusErrors : WriteReturn(l, r)
    \/ \E l \in TwoGroupLeds : Unlock(l)
    \/ \E l \in TwoGroupLeds : Return(l)

SpecGroups == InitGroups /\ [][NextGroups]_vars

\* the call on l holds its mutex
InCritical(l) == pc[l] \in {"calc", "store", "copy", "write", "spi", "unlock"}

\* C14: a call waiting at the lock is never held up by a call of the other
\* chip group that is inside its critical section: its lock step is enabled.
C14_GroupsIndependent ==
    \A a \in TwoGroupLeds, b \in TwoGroupLeds :
        (GroupOf(a) # GroupOf(b) /\ pc[a] = "lock" /\ InCritical(b))
            => ENABLED Lock(a)

\* C14 witness: calls on LEDs of the two groups are inside their critical
\* sections at once, both in their bus write.
C14_Witness ==
    \E a \in TwoGroupLeds, b \in TwoGroupLeds :
        /\ GroupOf(a) # GroupOf(b)
        /\ pc[a] = "spi" /\ mutex[a]
        /\ pc[b] = "spi" /\ mutex[b]

\* the order of the positions of one call
StepOrder ==
    { <<"idle", "alloc">>, <<"alloc", "idle">>, <<"alloc", "lock">>,
      <<"lock", "calc">>, <<"calc", "store">>, <<"store", "copy">>,
      <<"copy", "write">>, <<"write", "spi">>, <<"spi", "unlock">>,
      <<"unlock", "free">>, <<"free", "idle">> }

\* C15: a call that obtained its frame goes through lock, scaling and pixel
\* composition, slot store, buffer copy, bus write, unlock in this order;
\* it holds its mutex from the scaling until the unlock, its slot changes
\* only in the store step under the mutex, and the mutex is released only
\* by the unlock step, after the bus write has returned.
C15_OrderUnderLock ==
    /\ [](\A l \in LedIds : InCritical(l) <=> mutex[l])
    /\ [][\A l \in created :
             /\ pc'[l] # pc[l] => <<pc[l], pc'[l]>> \in StepOrder
             /\ SlotNext(l) # Slot(l) => pc[l] = "store" /\ mutex[l]
             /\ (pc[l] = "calc" /\ pc'[l] = "store")
                   => spix'[l] = RequestPixel(brightness[l], intensity[l])
             /\ (mutex[l] /\ ~mutex'[l])
                   => pc[l] = "unlock" /\ bus_status[l] # <<>>
                         /\ spi_tx[l] = <<>>]_vars

\* C15 witness: a call is at its unlock after a successful bus write, its
\* slot holding the pixel it stored, the mutex still held.
C15_Witness ==
    \E l \in registered :
        /\ pc[l] = "unlock"
        /\ mutex[l]
        /\ bus_status[l] = <<0>>
        /\ brightness[l] = LED_FULL
        /\ Slot(l) = RequestPixel(LED_FULL, intensity[l])

\* the bytes of the buffer a step changes
Changed == {i \in DOMAIN chip_cmd_buffer : chip_cmd_buffer'[i] # chip_cmd_buffer[i]}

\* the byte positions of the slot of LED l
SlotRange(l) == (led_ctrl_cmd[l] + 1) .. (led_ctrl_cmd[l] + PixelSize)

\* C16: a step that changes the allocated buffer is the slot store of one
\* call and changes bytes of that LED's slot only; when the store is
\* complete the slot is the new encoded pixel in whole; the slot index and
\* buffer reference of every created LED never change.
C16_OnlyOwnSlot ==
    [][/\ (chip_cmd_buffer # <<>> /\ chip_cmd_buffer' # chip_cmd_buffer)
             => /\ DOMAIN chip_cmd_buffer' = DOMAIN chip_cmd_buffer
                /\ \E l \in created :
                      /\ pc[l] = "store"
                      /\ stored'[l] # stored[l]
                      /\ Changed \subseteq SlotRange(l)
       /\ \A l \in created :
             /\ (pc[l] = "store" /\ pc'[l] = "copy")
                   => SlotNext(l) = RequestPixel(brightness[l], intensity[l])
             /\ led_ctrl_cmd'[l] = led_ctrl_cmd[l]
             /\ chip_id'[l] = chip_id[l]]_vars

\* C16 witness: LED 1 has replaced the pixel in its slot by full red while
\* slot 0 holds the other pixel LED 0 stored.
C16_Witness ==
    /\ pc[1] = "copy"
    /\ Slot(1) = RequestPixel(LED_FULL, <<255, 0, 0>>)
    /\ Slot(0) = RequestPixel(LED_FULL, <<16, 64, 128>>)
    /\ pc[0] = "idle"

\* C17: every created LED has its discovery position as slot index and its
\* buffer reference at slot index * per-chip frame length, so that the
\* payload copy starts at the start of the buffer; after probe returned 0
\* the LEDs are exactly those of the indices 0 .. chip_count - 1, each
\* index held by one LED.
C17_SequentialSlots ==
    /\ \A l \in created :
          /\ chip_id[l] = l
          /\ led_ctrl_cmd[l] = cdef.led_ctrl_cmd_len * chip_id[l]
          /\ PayloadSource(l) = 0
    /\ (ppc = "done" /\ probe_ret = <<0>>)
          => /\ created = 0 .. (chip_count - 1)
             /\ registered = created
             /\ {chip_id[l] : l \in created} = 0 .. (chip_count - 1)
             /\ \A a \in created, b \in created :
                   chip_id[a] = chip_id[b] => a = b
             /\ Len(chip_cmd_buffer) = cdef.led_ctrl_cmd_len * chip_count

\* C17 witness: probe returned 0 with both children of the group set up.
C17_Witness ==
    /\ ppc = "done"
    /\ probe_ret = <<0>>
    /\ created = {0, 1}
    /\ chip_id[1] = 1
    /\ led_ctrl_cmd[1] = PixelSize

\* ---- the group in service with the bus observed ----
InitBus == InitService

\* the calls of NextService, with every write and its result recorded
NextBus ==
    \/ \E l \in LedIds, b \in BrightnessVals : Call(l, b, <<255, 0, 0>>)
    \/ \E l \in LedIds : AllocOk(l)
    \/ \E l \in LedIds : AllocFail(l)
    \/ \E l \in LedIds : Lock(l)
    \/ \E l \in LedIds : Calc(l)
    \/ \E l \in LedIds, k \in 1 .. (PixelSize \div EncodingSize) : Store(l, k)
    \/ \E l \in LedIds : Copy(l)
    \/ \E l \in LedIds : BusWriteStart(l)
    \/ \E l \in LedIds, r \in {0} \cup BusErrors : BusWriteReturn(l, r)
    \/ \E l \in LedIds : Unlock(l)
    \/ \E l \in LedIds : Return(l)

SpecBus == InitBus /\ [][NextBus]_vars

\* the payload of a frame: what lies between the SOF byte and the EOF byte
Payload(frame) == SubSeq(frame, 2, Len(frame) - 1)

\* C18: when every call of the group has returned, a frame has been written
\* and no bus write has failed, the payload of the frame written last is
\* the buffer.
C18_LastFrameIsBuffer ==
    (/\ \A l \in GroupLeds : pc[l] = "idle"
     /\ spi_last # <<>>
     /\ ~bus_failed)
        => Payload(spi_last) = chip_cmd_buffer

\* the encodings of the 8-bit values
Encodings == {ws2812b_set_encoded_pixel(v) : v \in 0 .. U8Max}

\* the pixels a call can store: one per brightness and colour mix
StoredPixels ==
    {RequestPixel(b, mix) : b \in BrightnessVals, mix \in Mixes \cup {<<0, 0, 0>>}}

\* slot k (from 0) of the payload of a frame
FrameSlot(frame, k) ==
    SubSeq(Payload(frame), PixelSize * k + 1, PixelSize * (k + 1))

\* C19: in every frame on the bus, every slot of the payload is three
\* encodings of 8-bit values and is, as a whole, the pixel of one store.
C19_WholePixelsOnBus ==
    \A l \in created :
        pc[l] = "spi" =>
            \A k \in 0 .. (cdef.chip_num - 1) :
                /\ \A c \in 0 .. (PixelSize \div EncodingSize - 1) :
                      SubSeq(FrameSlot(spi_tx[l], k), EncodingSize * c + 1,
                             EncodingSize * (c + 1)) \in Encodings
                /\ FrameSlot(spi_tx[l], k) \in StoredPixels

\* C20: for every 8-bit chip_num and led_ctrl_cmd_len, the bytes the setter
\* copies into the frame fit into the frame's payload, the allocated size
\* less the two pad bytes.
C20_CopyFitsFrame ==
    len_frame # 0 => CopySize(len_cdef) <= len_frame - PadBytes

====
